---- MODULE Spec2Model ----
(***************************************************************************)
(* Model of the pismoker-js control core:                                  *)
(*   - TimedSwitchDevice / LatchedSwitchDevice (triggerSwitchDevice)       *)
(*   - PIDController                                                       *)
(*   - Traeger (operating-state orchestrator)                              *)
(*   - MAX31865 (RTD acquisition over SPI)                                 *)
(* Each component has its own next-state relation and specification; all  *)
(* components read the same wall clock `now` (Date.now()).                 *)
(***************************************************************************)
EXTENDS Integers, Sequences, FiniteSets, TLC

VARIABLES
  now,       \* Date.now(), in milliseconds
  kind,      \* which class wraps the device: "timed" or "latched"
  dev,       \* the TimedSwitchDevice object, its pending timeouts and the events of the last call
  lastOp,    \* the last operation performed on the device
  quietAt,   \* <<t0>> when turnOn() switched the output on at t0 and nothing was called since, else <<>>
  pid,       \* the PIDController object
  resp,      \* what the last getControllerResponse call computed (<<>> before the first call)
  trail,     \* the last two calls made on the PIDController, oldest first
  run,       \* the current run of calls with one and the same error: [err, dt, n]
  traeger,   \* the Traeger object
  calls,     \* the setState calls made so far: [from, to, outcome, after]
  chip,      \* the MAX31865 behind the SPI device: its configuration and fault status registers
  cfg,       \* a configuration setter called on its own: where it stands and its locals
  acq,       \* the readRTD() calls: where each one stands, its locals, and what it did so far
  bus        \* the SPI bus: who made the last transfer, and how many separate runs of
             \* consecutive transfers each call has had on it

switchVars == <<kind, dev, lastOp, quietAt>>

pidVars == <<pid, resp, trail, run>>

traegerVars == <<traeger, calls>>

rtdVars == <<chip, acq, bus>>

cfgVars == <<cfg>>

vars == <<now, switchVars, pidVars, traegerVars, rtdVars, cfgVars>>

notSwitchVars == <<pidVars, traegerVars, rtdVars, cfgVars>>

notPidVars == <<switchVars, traegerVars, rtdVars, cfgVars>>

notTraegerVars == <<now, switchVars, pidVars, rtdVars, cfgVars>>

notRtdVars == <<switchVars, pidVars, traegerVars, cfgVars>>

notCfgVars == <<now, switchVars, pidVars, traegerVars, acq, bus>>

----------------------------------------------------------------------------
(* Bounds of the model *)

\* Date.now() when the program starts: a real epoch reading is far larger
\* than any cycle time.
Epoch == 100000

\* how long after the start the clock is followed (switch devices)
Horizon == 6000

StartTimes == {Epoch}

\* values passed to setOnCycleTime / setOffCycleTime / setCycleTime
CycleTimes == {400, 1000}

null == 0

Min(a, b) == IF a <= b THEN a ELSE b

----------------------------------------------------------------------------
(* triggerSwitchDevice: TimedSwitchDevice *)

\* Number.POSITIVE_INFINITY
Infinity == -2

\* a > b on JS numbers where b may be +Infinity (a is always finite here)
GreaterThan(a, b) == IF b = Infinity THEN FALSE ELSE a > b

\* default value of the loopInterval constructor parameter
loopInterval == 500

\* new TimedSwitchDevice(onCycleTime, offCycleTime)
TimedSwitchDevice(onCycleTime, offCycleTime) ==
  [ _on               |-> FALSE,
    _toggledTime      |-> 0,
    _toggleCallbackID |-> null,
    _started          |-> FALSE,
    _interruptInterval |-> loopInterval,
    _onCycleTime      |-> onCycleTime,
    _offCycleTime     |-> offCycleTime,
    timers            |-> {},     \* timeouts of this device pending in the event loop
    emitted           |-> <<>> ]  \* events emitted by the call in progress

\* new LatchedSwitchDevice(cycleTime)
LatchedOffCycleTime == Infinity

\* variant: the off phase lasts as long as the on phase
LatchedSwitchDevice_finiteOff(cycleTime) == TimedSwitchDevice(cycleTime, cycleTime)

LatchedSwitchDevice(cycleTime) == TimedSwitchDevice(cycleTime, LatchedOffCycleTime)

isOn(d) == d._on

\* setTimeout returns a handle never equal to one still in use
NewTimerId(d) ==
  CHOOSE i \in 1..(Cardinality(d.timers) + 2) :
    /\ i # d._toggleCallbackID
    /\ \A t \in d.timers : t.id # i

\* setTimeout(fn, ms) at time t; fn closes over stopAfterNext
setTimeout(d, stopAfterNext, ms, t) ==
  LET id == NewTimerId(d) IN
  [d EXCEPT !._toggleCallbackID = id,
            !.timers = @ \cup {[id |-> id, at |-> t + ms, stopAfterNext |-> stopAfterNext]}]

\* clearTimeout(id): cancelling a timeout that already ran is a no-op
clearTimeout(d, id) == [d EXCEPT !.timers = {t \in @ : t.id # id}]

\* variant: the loop is marked stopped but the pending timeout is left alone
stop_noClear(d) == [d EXCEPT !._started = FALSE]

stop(d) ==
  LET d1 == [d EXCEPT !._started = FALSE] IN
  IF d1._toggleCallbackID # null THEN clearTimeout(d1, d1._toggleCallbackID) ELSE d1

\* variant: a timeout is armed whether the loop is marked started or not
start_unguarded(d, stopAfterNext, t) ==
  setTimeout([d EXCEPT !._started = TRUE], stopAfterNext, d._interruptInterval, t)

start(d, stopAfterNext, t) ==
  IF ~d._started
    THEN setTimeout([d EXCEPT !._started = TRUE], stopAfterNext, d._interruptInterval, t)
    ELSE d

_setToggledTime(d, t) == [d EXCEPT !._toggledTime = t]

_resetCallbackLoop(d, t) == start(stop(d), FALSE, t)

emit(d, e) == [d EXCEPT !.emitted = Append(@, e)]

\* variant: the setter also takes the call time as the toggle time
setOnCycleTime_restartWindow(d, time, t) ==
  _resetCallbackLoop(_setToggledTime([d EXCEPT !._onCycleTime = time], t), t)

setOnCycleTime(d, time, t) == _resetCallbackLoop([d EXCEPT !._onCycleTime = time], t)

setOffCycleTime(d, time, t) == _resetCallbackLoop([d EXCEPT !._offCycleTime = time], t)

\* variant: the output is forced but the loop is not restarted
turnOn_noRestart(d, t) ==
  IF ~d._on
    THEN _setToggledTime(emit([d EXCEPT !._on = TRUE], "on"), t)
    ELSE d

turnOn(d, t) ==
  IF ~d._on
    THEN _resetCallbackLoop(_setToggledTime(emit([d EXCEPT !._on = TRUE], "on"), t), t)
    ELSE d

turnOff(d, t) ==
  IF d._on
    THEN _resetCallbackLoop(_setToggledTime(emit([d EXCEPT !._on = FALSE], "off"), t), t)
    ELSE d

\* the timeout callback created by start(stopAfterNext)
fn(d, stopAfterNext, t) ==
  LET d1 == IF d._on
              THEN IF GreaterThan(t - d._toggledTime, d._onCycleTime) THEN turnOff(d, t) ELSE d
              ELSE IF GreaterThan(t - d._toggledTime, d._offCycleTime) THEN turnOn(d, t) ELSE d
  IN IF stopAfterNext THEN start(d1, FALSE, t) ELSE d1

\* a call from outside starts with an empty event record
Call(d) == [d EXCEPT !.emitted = <<>>]

----------------------------------------------------------------------------
(* JS numbers: exact rationals n/d with d > 0, and d = 0 for the values that
   are not finite: 1/0 is +Infinity, -1/0 is -Infinity, 0/0 is NaN.
   Rounding of IEEE doubles is not modelled. *)

Abs(x) == IF x < 0 THEN -x ELSE x

Sign(x) == IF x > 0 THEN 1 ELSE IF x < 0 THEN -1 ELSE 0

RECURSIVE Gcd(_, _)
Gcd(a, b) == IF b = 0 THEN a ELSE Gcd(b, a % b)

NaN == [n |-> 0, d |-> 0]

\* the number n/d, in lowest terms
Num(n, d) ==
  IF d = 0 THEN [n |-> Sign(n), d |-> 0]
  ELSE LET g == Gcd(Abs(n), Abs(d)) IN [n |-> (Sign(d) * n) \div g, d |-> Abs(d) \div g]

Integer(i) == Num(i, 1)

IsFinite(a) == a.d # 0

IsNaN(a) == a.d = 0 /\ a.n = 0

\* a + b
Add(a, b) ==
  IF IsNaN(a) \/ IsNaN(b) THEN NaN
  ELSE IF ~IsFinite(a) /\ ~IsFinite(b) THEN (IF a.n = b.n THEN a ELSE NaN)
  ELSE IF ~IsFinite(a) THEN a
  ELSE IF ~IsFinite(b) THEN b
  ELSE Num(a.n * b.d + b.n * a.d, a.d * b.d)

\* a * b
Mul(a, b) ==
  IF IsNaN(a) \/ IsNaN(b) THEN NaN
  ELSE IF ~IsFinite(a) \/ ~IsFinite(b) THEN Num(Sign(a.n) * Sign(b.n), 0)
  ELSE Num(a.n * b.n, a.d * b.d)

\* a / b
Div(a, b) ==
  IF IsNaN(a) \/ IsNaN(b) THEN NaN
  ELSE IF ~IsFinite(a) /\ ~IsFinite(b) THEN NaN
  ELSE IF ~IsFinite(a) THEN Num(a.n * (IF b.n < 0 THEN -1 ELSE 1), 0)
  ELSE IF ~IsFinite(b) THEN Integer(0)
  ELSE Num(a.n * b.d, a.d * b.n)

\* a < b (false when either is NaN)
Less(a, b) ==
  IF IsNaN(a) \/ IsNaN(b) THEN FALSE
  ELSE IF ~IsFinite(a) THEN a.n < 0 /\ a # b
  ELSE IF ~IsFinite(b) THEN b.n > 0
  ELSE a.n * b.d < b.n * a.d

MathAbs(a) == [n |-> Abs(a.n), d |-> a.d]

MathMax(a, b) == IF IsNaN(a) \/ IsNaN(b) THEN NaN ELSE IF Less(a, b) THEN b ELSE a

MathMin(a, b) == IF IsNaN(a) \/ IsNaN(b) THEN NaN ELSE IF Less(b, a) THEN b ELSE a

Neg(a) == [n |-> -a.n, d |-> a.d]

----------------------------------------------------------------------------
(* triggerSwitchDevice: PIDController *)

\* variant: only the lower bound is applied
clamp_noUpper(v, min, max) == MathMax(v, min)

clamp(v, min, max) == MathMin(MathMax(v, min), max)

\* constructor arguments: proportional band, integral time, derivative time
pb == 50

ti == 100

td == 10

\* new PIDController(pb, ti, td)
PIDController(p, i, d) ==
  LET Kp == Div(Integer(-1), Integer(p))
      Ki == Div(Kp, Integer(i))
      Kd == Mul(Kp, Integer(d))
  IN [ _Kp |-> Kp, _Ki |-> Ki, _Kd |-> Kd,
       _maxIntegrator |-> MathAbs(Div(Num(1, 2), Ki)),
       _lastTime |-> 0,
       _tempSetPoint |-> 0,
       _sumT |-> Integer(0) ]

setDesiredTemp(c, T) ==
  [c EXCEPT !._tempSetPoint = T, !._lastTime = 0, !._sumT = Integer(0)]

\* returns the controller with _sumT updated, and the integral term
_calculateIntegratorResponse(c, error, dt) ==
  LET maxI == c._maxIntegrator
      dI == Mul(Integer(error), Integer(dt))
      I == clamp(Add(c._sumT, dI), Neg(maxI), maxI)
  IN [c |-> [c EXCEPT !._sumT = I], value |-> Mul(c._Ki, I)]

_calculateDerivativeResponse(c, error, dt) ==
  LET dT == Div(Integer(error), Integer(dt))
  IN Mul(c._Kd, dT)

_calculateProportionalResponse(c, error) == Add(Mul(c._Kp, Integer(error)), Num(1, 2))

\* getControllerResponse(T) at clock reading currentTime: the controller
\* afterwards, the returned u and the decomposition handed to the callback
getControllerResponse(c, T, currentTime) ==
  LET dt == currentTime - c._lastTime
      error == T - c._tempSetPoint
      P == _calculateProportionalResponse(c, error)
      ir == _calculateIntegratorResponse(c, error, dt)
      I == ir.value
      D == _calculateDerivativeResponse(ir.c, error, dt)
      u == Add(Add(P, I), D)
  IN [c |-> [ir.c EXCEPT !._lastTime = currentTime],
      u |-> u, error |-> error, dt |-> dt, P |-> P, I |-> I, D |-> D]

----------------------------------------------------------------------------
(* Actions on the PID controller *)

\* temperatures passed to setDesiredTemp and getControllerResponse
Temps == {0, 5, 25}

\* clock step between calls, and how long the clock is followed
PidStep == 100

PidHorizon == 600

\* cap of the call counter of a run
MaxRun == 2

\* the trail after one more call
Trail(op) == IF Len(trail) < 2 THEN Append(trail, op) ELSE <<trail[2], op>>

PidInit ==
  /\ pid = PIDController(pb, ti, td)
  /\ resp = <<>>
  /\ trail = <<>>
  /\ run = [err |-> 0, dt |-> 0, n |-> 0]

SetDesiredTemp ==
  \E T \in Temps :
    /\ pid' = setDesiredTemp(pid, T)
    /\ trail' = Trail("setDesiredTemp")
    /\ run' = [err |-> 0, dt |-> 0, n |-> 0]
    /\ UNCHANGED <<now, resp, notPidVars>>

GetControllerResponse ==
  \E T \in Temps :
    LET r == getControllerResponse(pid, T, now) IN
    /\ pid' = r.c
    /\ resp' = [u |-> r.u, error |-> r.error, dt |-> r.dt, P |-> r.P, I |-> r.I, D |-> r.D]
    /\ trail' = Trail("getControllerResponse")
    /\ run' = IF run.n > 0 /\ run.err = r.error
                THEN [err |-> r.error, dt |-> run.dt + r.dt, n |-> Min(run.n + 1, MaxRun)]
                ELSE [err |-> r.error, dt |-> r.dt, n |-> 1]
    /\ UNCHANGED <<now, notPidVars>>

AdvancePID ==
  /\ \E s \in StartTimes : now >= s /\ now + PidStep <= s + PidHorizon
  /\ now' = now + PidStep
  /\ UNCHANGED <<pidVars, notPidVars>>

PidNext ==
  \/ SetDesiredTemp
  \/ GetControllerResponse
  \/ AdvancePID

----------------------------------------------------------------------------
(* traeger.ts: Traeger *)

\* enum TraegerState (Start is written StartState: Start names the switch action)
Off == "off"

Shutdown == "shutdown"

StartState == "start"

Smoke == "smoke"

Ignite == "ignite"

Hold == "hold"

TraegerState == {Off, Shutdown, StartState, Smoke, Ignite, Hold}

\* typestate: new FiniteStateMachine(startState), fsm.from(a).to(b)
FiniteStateMachine(startState) == [currentState |-> startState, transitions |-> {}]

fromTo(fsm, a, b) == [fsm EXCEPT !.transitions = @ \cup {<<a, b>>}]

\* new Traeger(config)
Traeger ==
  [ _auger   |-> TimedSwitchDevice(15 * 1000, 45 * 1000),
    _fan     |-> LatchedSwitchDevice(10 * 60 * 1000),
    _igniter |-> LatchedSwitchDevice(20 * 60 * 1000),
    _fsm     |-> fromTo(fromTo(fromTo(FiniteStateMachine(Off),
                   Off, StartState), StartState, Hold), StartState, Smoke) ]

\* public setState(state) {} : the body is empty
setState(tr, state) == tr

\* number of setState calls followed
MaxCalls == 4

TraegerInit ==
  /\ traeger = Traeger
  /\ calls = <<>>

SetState ==
  \E state \in TraegerState :
    /\ Len(calls) < MaxCalls
    /\ traeger' = setState(traeger, state)
    /\ calls' = Append(calls, [from    |-> traeger._fsm.currentState,
                               to      |-> state,
                               outcome |-> "returned",
                               after   |-> traeger'._fsm.currentState])
    /\ UNCHANGED notTraegerVars

TraegerNext == SetState

----------------------------------------------------------------------------
(* rtd/max31865.ts: MAX31865 *)

RECURSIVE BitAnd(_, _)
\* a & b on non-negative integers
BitAnd(a, b) ==
  IF a = 0 \/ b = 0 THEN 0
  ELSE (a % 2) * (b % 2) + 2 * BitAnd(a \div 2, b \div 2)

RECURSIVE BitOr(_, _)
\* a | b on non-negative integers
BitOr(a, b) ==
  IF a = 0 THEN b ELSE IF b = 0 THEN a
  ELSE (IF a % 2 = 1 \/ b % 2 = 1 THEN 1 ELSE 0) + 2 * BitOr(a \div 2, b \div 2)

\* a & ~b on bytes
BitClear(a, b) == a - BitAnd(a, b)

ShiftRight(a, k) == a \div (2 ^ k)

ShiftLeft(a, k) == a * (2 ^ k)

\* enum MAX31865ReadRegister / MAX31865WriteRegister
ReadCONFIG == 0

RTDMSBs == 1

WriteCONFIG == 128

FaultStatue == 7

\* the body of readRTD(), statement by statement
readRTD ==
  << [call |-> "clearFaultStatus", bit |-> 2,   ms |-> 0,  register |-> ReadCONFIG],
     [call |-> "setBiasVoltage",   bit |-> 128, ms |-> 0,  register |-> ReadCONFIG],
     [call |-> "_delay",           bit |-> 0,   ms |-> 10, register |-> 0],
     [call |-> "setOneShot",       bit |-> 32,  ms |-> 0,  register |-> ReadCONFIG],
     [call |-> "_delay",           bit |-> 0,   ms |-> 65, register |-> 0],
     [call |-> "_readUint16",      bit |-> 0,   ms |-> 0,  register |-> RTDMSBs] >>

\* the bits of the configuration register that clear themselves
\* (one-shot D5, fault-status clear D1)
SelfClearing == 34

\* the configuration register after the chip took a written byte
configAfter(byte) == BitClear(byte, SelfClearing)

\* the fault status register after the chip took a written configuration
\* byte: a 1 in D1 returns all fault status bits to 0
faultAfter(fault, byte) == IF BitAnd(byte, 2) # 0 THEN 0 ELSE fault

\* the public configuration setters: the bit each one toggles and the
\* arguments it can be called with
ConfigSetters ==
  { [name |-> "setWireConfig",     bitLocation |-> 16,  args |-> BOOLEAN],
    [name |-> "set50Hz",           bitLocation |-> 1,   args |-> BOOLEAN],
    [name |-> "clearFaultStatus",  bitLocation |-> 2,   args |-> {TRUE}],
    [name |-> "setOneShot",        bitLocation |-> 32,  args |-> {TRUE}],
    [name |-> "setAutoConversion", bitLocation |-> 64,  args |-> BOOLEAN],
    [name |-> "setBiasVoltage",    bitLocation |-> 128, args |-> BOOLEAN] }

\* _toggleConfigBit: the read value with the bit set or cleared
toggled(readConfig, predicate, bitLocation) ==
  IF predicate THEN BitOr(readConfig, bitLocation) ELSE BitClear(readConfig, bitLocation)

\* _writeUint8: the data byte put in the send buffer
writeByte(data) == BitAnd(data, 8)

\* _readUint16: (msb << 8) | lsb of the receive buffer
uint16(msb, lsb) == BitOr(ShiftLeft(msb, 8), lsb)

\* variant: the register value is returned as it is
rawCode_noShift(rawValue) == rawValue

\* readRTD: rtd = rawValue >> 1
rawCode(rawValue) == ShiftRight(rawValue, 1)

\* variant: the error is swallowed and the call goes on where it was
reject_swallowed(a) == a

\* a register transfer calls back with an error: the promise is rejected and
\* the awaiting readRTD() ends with that error
reject(a) == [a EXCEPT !.phase = "rejected"]

\* the two readRTD() calls that may be in flight together
Callers == {1, 2}

idle ==
  [stmt |-> 0, phase |-> "idle", readConfig |-> 0, wakeAt |-> 0, since |-> 0, rtd |-> 0,
   trace |-> <<>>]

\* caller p has done one more thing: a register transfer or a completed delay
Did(a, op, register, data, ok) ==
  [a EXCEPT !.trace = Append(@, [op |-> op, register |-> register, data |-> data, ok |-> ok])]

\* the SPI device carries out a transfer for caller p
Transfer(b, p) ==
  IF b.last = p THEN b
  ELSE [b EXCEPT !.last = p, !.runs[p] = @ + 1]

\* the call starts statement k of readRTD at time t (past the last: it returns)
Enter(a, k, t) ==
  LET b == [a EXCEPT !.stmt = k, !.since = 0, !.wakeAt = 0] IN
  IF k > Len(readRTD) THEN [b EXCEPT !.phase = "returned"]
  ELSE IF readRTD[k].call = "_delay"
    THEN [b EXCEPT !.phase = "wait", !.since = t, !.wakeAt = t + readRTD[k].ms]
  ELSE IF readRTD[k].call = "_readUint16"
    THEN [b EXCEPT !.phase = "read16"]
  ELSE [b EXCEPT !.phase = "read"]

\* configuration bytes the chip may hold when the program starts
ConfigBytes == {0, 201}

\* values of the RTD data register (MSB, LSB)
RtdValues == {0, 2, 3, 256, 65534, 65535}

\* clock step while an acquisition is in flight, and how long it is followed
RtdStep == 5

RtdHorizon == 160

\* fault status bytes the chip may hold (0: no fault, D2: over/undervoltage)
FaultBytes == {0, 4}

\* every value of a one-byte register
Bytes == 0..255

\* no setter has been called on its own
unset ==
  [phase |-> "idle", name |-> "", predicate |-> FALSE, bitLocation |-> 0,
   read |-> 0, readConfig |-> 0, sent |-> 0]

\* what readRTD() resolves with: the raw code, a number and nothing else
\* (getTemperature and getTempCelsius turn it into another number)
result(a) == [rtd |-> a.rtd]

RtdInit ==
  /\ chip = [config |-> 0, fault |-> 0]
  /\ cfg = unset
  /\ acq = [p \in Callers |-> idle]
  /\ bus = [last |-> 0, runs |-> [p \in Callers |-> 0]]

\* the promise of the call is still pending
InFlight(p) == acq[p].phase \notin {"idle", "returned", "rejected"}

\* readRTD() is called; the second call is made while the first is in flight
ReadRTD(p) ==
  /\ acq[p].phase = "idle"
  /\ p = 2 => InFlight(1)
  /\ acq' = [acq EXCEPT ![p] = Enter(@, 1, now)]
  /\ UNCHANGED <<now, chip, bus, notRtdVars>>

\* _toggleConfigBit: _readUint8(CONFIG) completes, or fails
ReadUint8(p) ==
  /\ acq[p].phase = "read"
  /\ \E err \in BOOLEAN :
       IF err
         THEN acq' = [acq EXCEPT ![p] =
                        Did(reject(@), "read8", ReadCONFIG, 0, FALSE)]
         ELSE acq' = [acq EXCEPT ![p] =
                        Did([@ EXCEPT !.phase = "write",
                                      !.readConfig =
                                         toggled(chip.config, TRUE, readRTD[acq[p].stmt].bit)],
                            "read8", ReadCONFIG, chip.config, TRUE)]
  /\ bus' = Transfer(bus, p)
  /\ UNCHANGED <<now, chip, notRtdVars>>

\* _toggleConfigBit: _writeUint8(CONFIG, readConfig) completes, or fails
WriteUint8(p) ==
  /\ acq[p].phase = "write"
  /\ \E err \in BOOLEAN :
       LET byte == writeByte(acq[p].readConfig) IN
       IF err
         THEN /\ acq' = [acq EXCEPT ![p] =
                           Did(reject(@), "write8", WriteCONFIG, byte, FALSE)]
              /\ UNCHANGED chip
         ELSE /\ acq' = [acq EXCEPT ![p] =
                           Did(Enter(@, acq[p].stmt + 1, now), "write8", WriteCONFIG, byte, TRUE)]
              /\ chip' = [config |-> configAfter(byte), fault |-> faultAfter(chip.fault, byte)]
  /\ bus' = Transfer(bus, p)
  /\ UNCHANGED <<now, notRtdVars>>

\* _delay(ms): the timeout runs and resolves the promise
DelayDone(p) ==
  /\ acq[p].phase = "wait"
  /\ now >= acq[p].wakeAt
  /\ acq' = [acq EXCEPT ![p] =
               Did(Enter(@, acq[p].stmt + 1, now), "delay", 0, now - acq[p].since, TRUE)]
  /\ UNCHANGED <<now, chip, bus, notRtdVars>>

\* _readUint16(RTDMSBs) completes, or fails; readRTD returns rawValue >> 1
ReadUint16(p) ==
  /\ acq[p].phase = "read16"
  /\ \E err \in BOOLEAN, v \in RtdValues :
       IF err
         THEN acq' = [acq EXCEPT ![p] =
                        Did(reject(@), "read16", RTDMSBs, 0, FALSE)]
         ELSE LET rawValue == uint16(ShiftRight(v, 8), v % 256) IN
              acq' = [acq EXCEPT ![p] =
                        Did(Enter([@ EXCEPT !.rtd = rawCode(rawValue)], acq[p].stmt + 1, now),
                            "read16", RTDMSBs, rawValue, TRUE)]
  /\ bus' = Transfer(bus, p)
  /\ UNCHANGED <<now, chip, notRtdVars>>

\* time passes while a call is in one of its delays, never past a due timeout
\* (a register transfer takes microseconds: no time on this clock)
AdvanceRTD ==
  LET due == {acq[p].wakeAt : p \in {q \in Callers : acq[q].phase = "wait"}}
      next == Min(now + RtdStep, CHOOSE x \in due : \A y \in due : x <= y)
  IN /\ due # {}
     /\ next > now
     /\ \E s \in StartTimes : now >= s /\ next <= s + RtdHorizon
     /\ now' = next
     /\ UNCHANGED <<rtdVars, notRtdVars>>

\* one of the configuration setters is called while none is in flight
ToggleConfigBit ==
  /\ cfg.phase \in {"idle", "resolved", "rejected"}
  /\ \E m \in ConfigSetters : \E predicate \in m.args :
       cfg' = [unset EXCEPT !.phase = "read", !.name = m.name,
                            !.predicate = predicate, !.bitLocation = m.bitLocation]
  /\ UNCHANGED <<chip, notCfgVars>>

\* _toggleConfigBit: _readUint8(CONFIG) completes, or fails
ToggleRead ==
  /\ cfg.phase = "read"
  /\ \E err \in BOOLEAN :
       IF err THEN cfg' = reject(cfg)
       ELSE cfg' = [cfg EXCEPT !.phase = "write",
                               !.read = chip.config,
                               !.readConfig = toggled(chip.config, cfg.predicate, cfg.bitLocation)]
  /\ UNCHANGED <<chip, notCfgVars>>

\* _toggleConfigBit: _writeUint8(CONFIG, readConfig) completes, or fails
ToggleWrite ==
  /\ cfg.phase = "write"
  /\ \E err \in BOOLEAN :
       LET byte == writeByte(cfg.readConfig) IN
       IF err
         THEN /\ cfg' = reject(cfg)
              /\ UNCHANGED chip
         ELSE /\ cfg' = [cfg EXCEPT !.phase = "resolved", !.sent = byte]
              /\ chip' = [config |-> configAfter(byte), fault |-> faultAfter(chip.fault, byte)]
  /\ UNCHANGED notCfgVars

CfgNext ==
  \/ ToggleConfigBit
  \/ ToggleRead
  \/ ToggleWrite

RtdNext ==
  \/ \E p \in Callers : ReadRTD(p)
  \/ \E p \in Callers : ReadUint8(p)
  \/ \E p \in Callers : WriteUint8(p)
  \/ \E p \in Callers : DelayDone(p)
  \/ \E p \in Callers : ReadUint16(p)
  \/ AdvanceRTD

----------------------------------------------------------------------------
(* Actions on the switch device *)

SwitchInit ==
  /\ kind \in {"timed", "latched"}
  /\ dev = IF kind = "timed" THEN TimedSwitchDevice(1000, 2000)
                             ELSE LatchedSwitchDevice(5000)
  /\ lastOp = "new"
  /\ quietAt = <<>>

TurnOn ==
  /\ dev' = turnOn(Call(dev), now)
  /\ lastOp' = "turnOn"
  /\ quietAt' = IF ~dev._on THEN <<now>> ELSE <<>>
  /\ UNCHANGED <<now, kind, notSwitchVars>>

TurnOff ==
  /\ dev' = turnOff(Call(dev), now)
  /\ lastOp' = "turnOff"
  /\ quietAt' = <<>>
  /\ UNCHANGED <<now, kind, notSwitchVars>>

Start ==
  \E stopAfterNext \in BOOLEAN :
    /\ dev' = start(Call(dev), stopAfterNext, now)
    /\ lastOp' = "start"
    /\ quietAt' = <<>>
    /\ UNCHANGED <<now, kind, notSwitchVars>>

Stop ==
  /\ dev' = stop(Call(dev))
  /\ lastOp' = "stop"
  /\ quietAt' = <<>>
  /\ UNCHANGED <<now, kind, notSwitchVars>>

\* TimedSwitchDevice.setOnCycleTime, LatchedSwitchDevice.setCycleTime
SetOnCycleTime ==
  \E time \in CycleTimes :
    /\ dev' = setOnCycleTime(Call(dev), time, now)
    /\ lastOp' = "setOnCycleTime"
    /\ quietAt' = <<>>
    /\ UNCHANGED <<now, kind, notSwitchVars>>

\* not reachable through a LatchedSwitchDevice
SetOffCycleTime ==
  \E time \in CycleTimes :
    /\ kind = "timed"
    /\ dev' = setOffCycleTime(Call(dev), time, now)
    /\ lastOp' = "setOffCycleTime"
    /\ quietAt' = <<>>
    /\ UNCHANGED <<now, kind, notSwitchVars>>

\* the event loop runs a timeout that is due
PollTick ==
  \E tm \in dev.timers :
    /\ tm.at <= now
    /\ dev' = fn(Call([dev EXCEPT !.timers = @ \ {tm}]), tm.stopAfterNext, now)
    /\ lastOp' = "tick"
    /\ UNCHANGED <<now, kind, quietAt, notSwitchVars>>

\* granularity of the clock between timeouts
Quantum == loopInterval \div 2

\* time passes, never past a due timeout
AdvanceSwitch ==
  LET due == {tm.at : tm \in dev.timers}
      next == IF due = {} THEN now + Quantum
              ELSE Min(now + Quantum, CHOOSE x \in due : \A y \in due : x <= y)
  IN /\ next > now
     /\ \E s \in StartTimes : now >= s /\ next <= s + Horizon
     /\ now' = next
     /\ UNCHANGED <<switchVars, notSwitchVars>>

SwitchNext ==
  \/ TurnOn
  \/ TurnOff
  \/ Start
  \/ Stop
  \/ SetOnCycleTime
  \/ SetOffCycleTime
  \/ PollTick
  \/ AdvanceSwitch

InitSwitch ==
  /\ now \in StartTimes
  /\ SwitchInit
  /\ PidInit
  /\ TraegerInit
  /\ RtdInit

SpecSwitch == InitSwitch /\ [][SwitchNext]_vars

InitPID ==
  /\ now \in StartTimes
  /\ kind = "timed"
  /\ SwitchInit
  /\ PidInit
  /\ TraegerInit
  /\ RtdInit

SpecPID == InitPID /\ [][PidNext]_vars

InitTraeger == InitPID

SpecTraeger == InitTraeger /\ [][TraegerNext]_vars

InitRTD ==
  /\ now \in StartTimes
  /\ kind = "timed"
  /\ SwitchInit
  /\ PidInit
  /\ TraegerInit
  /\ chip \in [config : ConfigBytes, fault : FaultBytes]
  /\ cfg = unset
  /\ acq = [p \in Callers |-> idle]
  /\ bus = [last |-> 0, runs |-> [p \in Callers |-> 0]]

SpecRTD == InitRTD /\ [][RtdNext]_vars

\* the configuration setters, called one at a time on a chip holding any
\* configuration byte
InitConfig ==
  /\ now \in StartTimes
  /\ kind = "timed"
  /\ SwitchInit
  /\ PidInit
  /\ TraegerInit
  /\ chip \in [config : Bytes, fault : FaultBytes]
  /\ cfg = unset
  /\ acq = [p \in Callers |-> idle]
  /\ bus = [last |-> 0, runs |-> [p \in Callers |-> 0]]

SpecConfig == InitConfig /\ [][CfgNext]_vars

----------------------------------------------------------------------------
(* Properties of the PID controller *)

\* a <= b on finite numbers
LessEq(a, b) == IsFinite(a) /\ IsFinite(b) /\ ~Less(b, a)

\* error * dt accumulated over the current run of calls with one same error
RunArea == Integer(Abs(run.err) * run.dt)

\* C4: after any sequence of setDesiredTemp and getControllerResponse
\* calls, _sumT lies in [-maxIntegrator, +maxIntegrator]; and once a constant
\* non-zero error has been sustained long enough to cross the whole band
\* (|error| * elapsed >= 2 * maxIntegrator), _sumT is exactly +maxIntegrator
\* or -maxIntegrator, on the side of the error.
C4_IntegratorClamped ==
  /\ LessEq(Neg(pid._maxIntegrator), pid._sumT)
  /\ LessEq(pid._sumT, pid._maxIntegrator)
  /\ (run.n > 0 /\ run.err # 0 /\ LessEq(Mul(Integer(2), pid._maxIntegrator), RunArea))
        => pid._sumT = Mul(Integer(Sign(run.err)), pid._maxIntegrator)

\* a constant positive error was sustained over several calls for longer
\* than the band is wide, so the sum had to be cut down to +maxIntegrator
C4_Witness ==
  /\ run.n >= 2
  /\ run.err > 0
  /\ Less(Mul(Integer(2), pid._maxIntegrator), RunArea)
  /\ pid._sumT = pid._maxIntegrator
  /\ now > resp.dt

\* C5: after setDesiredTemp the integrator sum is 0, and the next
\* getControllerResponse has zero integral and derivative terms, so that it
\* returns Kp*error + 0.5 whatever the clock reads.
C5_ResetIsFreshStart ==
  /\ (trail # <<>> /\ trail[Len(trail)] = "setDesiredTemp") => pid._sumT = Integer(0)
  /\ (trail = <<"setDesiredTemp", "getControllerResponse">>)
        => /\ resp.I = Integer(0)
           /\ resp.D = Integer(0)
           /\ resp.u = _calculateProportionalResponse(pid, resp.error)

\* C20: getControllerResponse does not divide by a zero dt: when no time
\* has passed since the last call (or since the clock reading the controller
\* holds), the derivative term is zero and the returned output is finite.
C20_NoDivisionByZeroDt ==
  (trail # <<>> /\ trail[Len(trail)] = "getControllerResponse") =>
     /\ IsFinite(resp.u)
     /\ resp.dt = 0 => resp.D = Integer(0)

----------------------------------------------------------------------------
(* Properties of the switch devices *)

\* offset from a toggle of the first poll tick at which more than c ms have elapsed
FirstTickAfter(c) == ((c \div loopInterval) + 1) * loopInterval

\* the output was switched on by turnOn() at quietAt[1], nothing was called
\* since, and the device has not toggled by itself since
StillInOnPhase == dev._on /\ dev._toggledTime = quietAt[1]

\* C1: a TimedSwitchDevice turned on by turnOn() at t0, with no further
\* calls, is on at every instant before the first poll tick at which more than
\* onCycleTime has elapsed (for 1000 ms: up to t0+999), and has turned itself
\* off once that poll tick is past.
C1_TimedTurnsItselfOff ==
  (kind = "timed" /\ quietAt # <<>>) =>
     /\ (now - quietAt[1] < dev._onCycleTime => StillInOnPhase)
     /\ (now - quietAt[1] > FirstTickAfter(dev._onCycleTime) => ~StillInOnPhase)

\* C2: a LatchedSwitchDevice with cycleTime 5000 turned on by turnOn() at
\* t0, with no further calls, stays on until cycleTime has elapsed and is off
\* once the next poll tick is past.
C2_LatchedTurnsItselfOff ==
  (kind = "latched" /\ quietAt # <<>> /\ dev._onCycleTime = 5000) =>
     /\ (now - quietAt[1] <= dev._onCycleTime => dev._on)
     /\ (now - quietAt[1] > FirstTickAfter(dev._onCycleTime) => ~dev._on)

\* C3: the output of a LatchedSwitchDevice goes from off to on only inside
\* an explicit turnOn() call; no poll tick (and no other call) turns it on.
C3_LatchedOnOnlyByTurnOn ==
  [][(kind = "latched" /\ ~dev._on /\ dev'._on) => lastOp' = "turnOn"]_vars

\* a poll tick ran on a latched device that had been off for longer than any
\* cycle time, after the device had been on before, and left it off
C3_Witness ==
  /\ kind = "latched"
  /\ lastOp = "tick"
  /\ ~dev._on
  /\ dev._toggledTime > 0
  /\ now - dev._toggledTime > dev._onCycleTime

----------------------------------------------------------------------------
(* Properties of the Traeger controller *)

\* the transitions the controller has to accept
RequiredTransitions ==
  {<<Off, StartState>>, <<StartState, Smoke>>, <<StartState, Hold>>, <<Smoke, Ignite>>,
   <<Ignite, Hold>>, <<Hold, Shutdown>>, <<Shutdown, Off>>}
    \cup {<<x, Shutdown>> : x \in {StartState, Smoke, Ignite, Hold}}

Requests == [i \in 1..Len(calls) |-> calls[i].to]

ActuatorsStopped ==
  /\ ~traeger._auger._started /\ traeger._auger.timers = {}
  /\ ~traeger._fan._started /\ traeger._fan.timers = {}
  /\ ~traeger._igniter._started /\ traeger._igniter.timers = {}

\* C6: a request that is not an allowed transition from the current state
\* (Off -> Hold, Smoke -> Off, ...) fails with an invalid-transition error, and
\* setState never returns normally with the operating state left unchanged.
C6_InvalidTransitionFails ==
  \A i \in 1..Len(calls) :
    /\ <<calls[i].from, calls[i].to>> \notin RequiredTransitions
          => calls[i].outcome = "InvalidTransitionError"
    /\ calls[i].outcome = "returned" => calls[i].after # calls[i].from

\* C7: the controller starts in Off and every required transition is
\* accepted, the requested state becoming current; Off -> Start -> Hold ->
\* Shutdown -> Off ends in Off with auger, fan and igniter stopped.
C7_RequiredTransitionsAccepted ==
  /\ calls = <<>> => traeger._fsm.currentState = Off
  /\ \A i \in 1..Len(calls) :
        <<calls[i].from, calls[i].to>> \in RequiredTransitions
          => calls[i].outcome = "returned" /\ calls[i].after = calls[i].to
  /\ Requests = <<StartState, Hold, Shutdown, Off>>
        => traeger._fsm.currentState = Off /\ ActuatorsStopped

\* C8: when setState(Start) from Off has returned, the fan and igniter
\* loops are started and the auger is started with 15 s on / 45 s off.
C8_StartProgramsActuators ==
  \A i \in 1..Len(calls) :
    (i = Len(calls) /\ calls[i].from = Off /\ calls[i].to = StartState
       /\ calls[i].outcome = "returned")
      => /\ traeger._fan._started
         /\ traeger._igniter._started
         /\ traeger._auger._started
         /\ traeger._auger._onCycleTime = 15 * 1000
         /\ traeger._auger._offCycleTime = 45 * 1000

----------------------------------------------------------------------------
(* Properties of the MAX31865 driver *)

\* C9: when two acquisitions are in flight together, the register
\* transfers of one are never interleaved with those of the other: on the bus
\* each acquisition's transfers form one uninterrupted run.
C9_AcquisitionsNotInterleaved ==
  \A p \in Callers : bus.runs[p] <= 1

\* the k-th thing a readRTD() does, given what it did before; withData also
\* requires each configuration write to carry the byte read with the bit set
StepOk(tr, k, withData) ==
  LET e == tr[k]
      rmw(bit) == /\ e.op = "write8" /\ e.register = WriteCONFIG
                  /\ tr[k - 1].op = "read8" /\ tr[k - 1].register = ReadCONFIG
                  /\ withData => e.data = BitOr(tr[k - 1].data, bit)
  IN CASE k \in {1, 3, 6} -> e.op = "read8" /\ e.register = ReadCONFIG
       [] k = 2 -> rmw(2)
       [] k = 4 -> rmw(128)
       [] k = 5 -> e.op = "delay" /\ e.data >= 10
       [] k = 7 -> rmw(32)
       [] k = 8 -> e.op = "delay" /\ e.data >= 65
       [] k = 9 -> e.op = "read16" /\ e.register = RTDMSBs
       [] OTHER -> FALSE

NoFailure(tr) == \A k \in 1..Len(tr) : tr[k].ok

\* C10: a single readRTD() without transport failure does, in this order:
\* read-modify-write of the configuration setting bit 0x02, read-modify-write
\* setting bit 0x80, a wait of at least 10 ms, read-modify-write setting bit
\* 0x20, a wait of at least 65 ms, one 16-bit read of register 0x01; at every
\* moment what it has done so far is a prefix of that sequence.
C10_ReadRTDSequence ==
  (acq[2].phase = "idle" /\ NoFailure(acq[1].trace)) =>
     /\ \A k \in 1..Len(acq[1].trace) : StepOk(acq[1].trace, k, TRUE)
     /\ acq[1].phase = "returned" => Len(acq[1].trace) = 9

\* the order of the operations and the two waits alone, whatever bytes the
\* configuration writes carry
ReadRTDOrder ==
  \A p \in Callers :
    NoFailure(acq[p].trace) =>
      /\ \A k \in 1..Len(acq[p].trace) : StepOk(acq[p].trace, k, FALSE)
      /\ acq[p].phase = "returned" => Len(acq[p].trace) = 9

\* the last thing caller p did
Last(p) == acq[p].trace[Len(acq[p].trace)]

\* readRTD() of caller p has returned a raw code
Returned(p) == acq[p].phase = "returned"

\* C11: the raw code returned by readRTD is the 16-bit register value
\* shifted right by one: it lies in 0..32767, it keeps bits 15..1 and drops
\* bit 0 (v and v XOR 1 give the same code), and 0x0002 gives 1.
C11_RawCodeIsTop15Bits ==
  \A p \in Callers :
    Returned(p) =>
      LET v == Last(p).data IN
      /\ Last(p).op = "read16"
      /\ acq[p].rtd \in 0..32767
      /\ 2 * acq[p].rtd + (v % 2) = v
      /\ (v = 2 => acq[p].rtd = 1)
      /\ \A q \in Callers :
           (Returned(q) /\ Abs(Last(q).data - v) = 1 /\ Min(Last(q).data, v) % 2 = 0)
              => acq[q].rtd = acq[p].rtd

\* two acquisitions returned, one read 0x0002 and the other 0x0003 (fault
\* bit set), both with raw code 1
C11_Witness ==
  /\ Returned(1) /\ Returned(2)
  /\ Last(1).data = 2 /\ acq[1].rtd = 1
  /\ Last(2).data = 3 /\ acq[2].rtd = 1

\* C12: a configuration setter is a read-modify-write: the data byte it
\* sends to the write register is the byte it read with the target bit set
\* (predicate true) or cleared (predicate false) and every other bit as read.
C12_ReadModifyWrite ==
  cfg.phase = "resolved" =>
    /\ BitAnd(cfg.sent, cfg.bitLocation) = (IF cfg.predicate THEN cfg.bitLocation ELSE 0)
    /\ BitClear(cfg.sent, cfg.bitLocation) = BitClear(cfg.read, cfg.bitLocation)

\* the result of a call carries a fault mark
MarkedFaulted(r) == "faulted" \in DOMAIN r /\ r.faulted

\* C13: an acquisition whose transfers all succeeded returns a result that is
\* marked faulted when the chip's fault status register is not clear, and is
\* not marked faulted only if the call read the fault status register and
\* found it clear.
C13_FaultsAreMarked ==
  \A p \in Callers :
    Returned(p) =>
      /\ chip.fault # 0 => MarkedFaulted(result(acq[p]))
      /\ ~MarkedFaulted(result(acq[p])) =>
            \E k \in 1..Len(acq[p].trace) :
              /\ acq[p].trace[k].op = "read8"
              /\ acq[p].trace[k].register = FaultStatue
              /\ acq[p].trace[k].data = 0

\* C14: when a register transfer of an acquisition fails, the call is
\* rejected with that error: the failed transfer is the last thing the call
\* did (no retry, no later step) and no raw code is produced.
C14_TransportErrorPropagates ==
  \A p \in Callers :
    /\ \A k \in 1..Len(acq[p].trace) :
         ~acq[p].trace[k].ok =>
            /\ k = Len(acq[p].trace)
            /\ acq[p].phase = "rejected"
            /\ acq[p].rtd = 0
    /\ acq[p].phase = "rejected" => (Len(acq[p].trace) > 0 /\ ~Last(p).ok)

\* the one-shot write of an acquisition failed after its first four
\* transfers and the bias wait had succeeded
C14_Witness ==
  \E p \in Callers :
    /\ acq[p].phase = "rejected"
    /\ Len(acq[p].trace) = 7
    /\ Last(p).op = "write8" /\ ~Last(p).ok

----------------------------------------------------------------------------
(* Properties of the switch devices' operations *)

\* the duration of the phase the device is in
PhaseDuration(d) == IF d._on THEN d._onCycleTime ELSE d._offCycleTime

\* the last call was the setter of the duration of the phase the device is in
SetCurrentPhase ==
  \/ lastOp = "setOnCycleTime" /\ dev._on
  \/ lastOp = "setOffCycleTime" /\ ~dev._on

\* exactly one wake is pending, a polling interval after t
OneWakeAfter(d, t) ==
  \E tm \in d.timers :
    /\ d.timers = {tm}
    /\ tm.at = t + d._interruptInterval
    /\ tm.id = d._toggleCallbackID

\* when the wake that is pending was armed
ArmedAt(d) == (CHOOSE tm \in d.timers : TRUE).at - d._interruptInterval

C16_StopAfterNextHalts ==
  [][(PollTick /\ \A tm \in dev.timers : tm.stopAfterNext) => dev'.timers = {}]_vars

\* C17: turnOn() (turnOff()) on a device that is already on (off) changes
\* nothing and emits nothing; otherwise it sets the output, takes now as the
\* toggle timestamp, emits exactly one 'on' ('off') event and leaves one
\* wake pending a polling interval later.
C17_ForcedState ==
  [][/\ TurnOn =>
          IF dev._on
            THEN /\ dev'.emitted = <<>>
                 /\ [dev' EXCEPT !.emitted = <<>>] = [dev EXCEPT !.emitted = <<>>]
            ELSE /\ isOn(dev')
                 /\ dev'._toggledTime = now
                 /\ dev'.emitted = <<"on">>
                 /\ dev'._started
                 /\ OneWakeAfter(dev', now)
     /\ TurnOff =>
          IF ~dev._on
            THEN /\ dev'.emitted = <<>>
                 /\ [dev' EXCEPT !.emitted = <<>>] = [dev EXCEPT !.emitted = <<>>]
            ELSE /\ ~isOn(dev')
                 /\ dev'._toggledTime = now
                 /\ dev'.emitted = <<"off">>
                 /\ dev'._started
                 /\ OneWakeAfter(dev', now)
    ]_vars

\* turnOn() has just switched on a device that was started and off
C17_Witness ==
  /\ lastOp = "turnOn"
  /\ dev._on /\ dev._toggledTime = now /\ dev.emitted = <<"on">>
  /\ now > Epoch
  /\ OneWakeAfter(dev, now)

\* C18: stop() cancels the pending wake and halts the loop, leaves the
\* output, the toggle timestamp and both durations as they are and emits no
\* event; after it, until start, turnOn, turnOff or a setter is called, the
\* output does not change and no event is emitted.
C18_StopHalts ==
  [][/\ Stop =>
          /\ dev'.timers = {}
          /\ ~dev'._started
          /\ dev'._on = dev._on
          /\ dev'._toggledTime = dev._toggledTime
          /\ dev'._onCycleTime = dev._onCycleTime
          /\ dev'._offCycleTime = dev._offCycleTime
          /\ dev'.emitted = <<>>
     /\ (lastOp = "stop" /\ lastOp' \in {"stop", "tick"}) =>
          /\ dev'._on = dev._on
          /\ dev'.emitted = <<>>
    ]_vars

\* stop() was called on a device that is on and had a wake pending, and
\* time has passed since without a toggle
C18_Witness ==
  /\ lastOp = "stop"
  /\ dev._on /\ ~dev._started /\ dev.timers = {}
  /\ dev._toggleCallbackID # null
  /\ GreaterThan(now - dev._toggledTime, dev._onCycleTime)

\* C19: once start() has returned a wake is pending, and while the device
\* has not been stopped a wake is pending after every poll tick.
C19_LoopFreeRuns ==
  /\ lastOp = "start" => dev.timers # {}
  /\ (lastOp = "tick" /\ dev._started) => dev.timers # {}

\* C21: at most one wake is pending for the device in every reachable state,
\* whatever calls and poll ticks it has seen, and start() on a device that is
\* marked started leaves the pending wakes as they are.
C21_AtMostOneWake ==
  /\ [](Cardinality(dev.timers) <= 1)
  /\ [][(Start /\ dev._started) => dev'.timers = dev.timers]_vars

\* start() was called on a device that turnOn() or a toggling poll tick had
\* already started: the one wake pending is the one armed at the toggle
C21_Witness ==
  /\ lastOp = "start"
  /\ dev._on /\ dev._started
  /\ \E tm \in dev.timers :
       /\ dev.timers = {tm}
       /\ tm.at = dev._toggledTime + dev._interruptInterval
       /\ ~tm.stopAfterNext

====
